---- MODULE Spec2Model ----
(***************************************************************************)
(* Model of the notebook auto-ml-forecasting-bike-share.ipynb: the code    *)
(* cells run in document order, each cell is one action, and the remote    *)
(* jobs of the platform make progress between the cells.                   *)
(***************************************************************************)
EXTENDS Integers, Sequences, FiniteSets, TLC

(***************************************************************************)
(* Bounds of the model.                                                    *)
(***************************************************************************)
\* largest number of rows of the dataset in the notebook specification
MaxRows == 2
\* largest number of rows of the held-out test set in the evaluation specification
MaxTestRows == 29

(***************************************************************************)
(* Constants of the notebook.                                              *)
(***************************************************************************)
amlcompute_cluster_name == "cpu-cluster-bike"
target_column_name == "cnt"
time_column_name == "date"
max_horizon == 14

\* datetime values are counted in half days since 2012-01-01 00:00
TicksPerDay == 2

\* days of the year 2012 (a leap year) before the first day of month m
DaysBeforeMonth(m) ==
  CASE m = 1 -> 0   [] m = 2 -> 31  [] m = 3 -> 60  [] m = 4 -> 91
    [] m = 5 -> 121 [] m = 6 -> 152 [] m = 7 -> 182 [] m = 8 -> 213
    [] m = 9 -> 244 [] m = 10 -> 274 [] m = 11 -> 305 [] m = 12 -> 335

\* datetime(2012, m, d): midnight of that day
datetime(y, m, d) == (DaysBeforeMonth(m) + (d - 1)) * TicksPerDay

\* the timestamps a dataset row may carry: 2012-08-30 12:00 .. 2012-09-01 12:00
TimeSample == (datetime(2012, 8, 31) - 1) .. (datetime(2012, 9, 1) + 1)
\* the values of the target column of a dataset row
CntSample == {1, 2}
\* the offsets of a prediction from the actual value that a scoring job may produce
BiasSample == {-1, 0, 2}

(***************************************************************************)
(* The workspace.                                                          *)
(***************************************************************************)
\* the compute target types the workspace may hold under a name
TargetTypes == {"AmlCompute", "VirtualMachine"}

ExistingTarget(n, t) == [name |-> n, type |-> t, origin |-> "existing"]
CreatedTarget(n) == [name |-> n, type |-> "AmlCompute", origin |-> "created"]
UnboundTarget == [name |-> "", type |-> "", origin |-> "unbound"]

\* ws.compute_targets: a dictionary from names to compute targets
WorkspaceTargets ==
  LET Names == {amlcompute_cluster_name, "gpu-cluster"}
  IN  UNION {[S -> TargetTypes] : S \in SUBSET Names}

VARIABLES
  pc,                 \* the next code cell to run, "done", or "aborted:<cell>"
                      \* when that cell raised an exception
  ws_compute_targets, \* name -> type of the compute targets of the workspace
  cts, found, compute_target,
  createCalls,        \* number of calls of ComputeTarget.create
  clusterWaits,       \* the compute targets whose wait_for_completion was called
  dataset, train, test,
  max_horizon_value,  \* the value bound to the notebook variable max_horizon
  automl_config,
  train_job,          \* the remote training job of experiment.submit
  score_jobs,         \* the remote scoring jobs of run_rolling_forecast
  score_args,         \* the arguments run_rolling_forecast was called with
  remote_run,         \* the run handle bound to the variable remote_run
  get_output_calls,   \* the runs get_output was called on, with their status then
  best_run, fitted_model,
  engineered_feature_names, featurization_summary,
  df_all,
  downloaded_from,    \* the run handle download_file was called on
  scores,
  horizon_metrics,    \* the table of the groupby('horizon_origin') cell
  APEs

vars == <<pc, ws_compute_targets, cts, found, compute_target, createCalls,
          clusterWaits, dataset, train, test, max_horizon_value, automl_config,
          train_job,
          score_jobs, score_args, remote_run, get_output_calls, best_run,
          fitted_model, engineered_feature_names, featurization_summary, df_all,
          downloaded_from, scores, horizon_metrics, APEs>>

computeVars == <<cts, found, compute_target, createCalls, clusterWaits>>
dataVars == <<dataset, train, test>>
trainVars == <<automl_config, train_job, get_output_calls, best_run, fitted_model,
               engineered_feature_names, featurization_summary>>
scoreVars == <<score_jobs, score_args, df_all, downloaded_from>>
evalVars == <<scores, horizon_metrics, APEs>>

(***************************************************************************)
(* Values of notebook variables.                                           *)
(***************************************************************************)
\* a notebook variable that no cell has assigned yet
Unbound == [kind |-> "unbound", run |-> "none"]
NoConfig == [task |-> "unbound"]
NoArgs == [experiment |-> "unbound"]

\* the run statuses after which wait_for_completion returns
TerminalStatuses == {"Completed", "Failed"}

\* the datasets of the notebook specification: rows in time order
SortedByDate(ds) == \A i \in 1..(Len(ds) - 1) : ds[i].date <= ds[i + 1].date

Rows == [date : TimeSample, cnt : CntSample]

Datasets ==
  {ds \in UNION {[1..n -> Rows] : n \in 0..MaxRows} : SortedByDate(ds)}

(***************************************************************************)
(* Compute cell.                                                           *)
(***************************************************************************)
\* the mutant of FoundExisting that does not look at the type of the target
FoundExistingByNameOnly(targets, name) == name \in DOMAIN targets

\* the condition of the if statement of the Compute cell
FoundExisting(targets, name) ==
  name \in DOMAIN targets /\ targets[name].type = "AmlCompute"

\* the mutant of NeedsCreate that creates the cluster in every run
NeedsCreateAlways(isFound) == TRUE

\* "if not found:"
NeedsCreate(isFound) == ~isFound

\* what ComputeTarget.create may do: return the new cluster, or raise (quota,
\* a name already in use by a target of another type)
CreateOutcomes == {"created", "raised"}

ComputeCell ==
  /\ pc = "compute"
  /\ cts' = ws_compute_targets
  /\ found' = FoundExisting(cts', amlcompute_cluster_name)
  /\ \E outcome \in IF NeedsCreate(found') THEN CreateOutcomes ELSE {"kept"} :
       LET looked == IF found' THEN cts'[amlcompute_cluster_name] ELSE compute_target
           bound  == IF outcome = "created"
                       THEN CreatedTarget(amlcompute_cluster_name)
                       ELSE looked
       IN  /\ createCalls' = IF outcome = "kept" THEN createCalls ELSE createCalls + 1
           /\ compute_target' = bound
           /\ ws_compute_targets' =
                IF outcome = "created"
                  THEN [n \in DOMAIN ws_compute_targets \cup {amlcompute_cluster_name} |->
                          IF n = amlcompute_cluster_name THEN bound
                          ELSE ws_compute_targets[n]]
                  ELSE ws_compute_targets
           /\ clusterWaits' = IF outcome = "raised" THEN clusterWaits
                              ELSE Append(clusterWaits, bound)
           /\ pc' = IF outcome = "raised" THEN "aborted:compute" ELSE "split_train"
  /\ UNCHANGED <<max_horizon_value, dataVars, trainVars, scoreVars, evalVars, remote_run>>

(***************************************************************************)
(* Split cells.                                                            *)
(***************************************************************************)
\* TabularDataset.time_before: the rows whose timestamp is before end_time
time_before(ds, end_time, include_boundary) ==
  SelectSeq(ds, LAMBDA r : IF include_boundary THEN r[time_column_name] <= end_time
                                               ELSE r[time_column_name] < end_time)

\* TabularDataset.time_after: the rows whose timestamp is after start_time
time_after(ds, start_time, include_boundary) ==
  SelectSeq(ds, LAMBDA r : IF include_boundary THEN r[time_column_name] >= start_time
                                               ELSE r[time_column_name] > start_time)

\* the mutant of SplitTrainCell that takes the rows up to the cutoff of the test set
SplitTrainCellThroughSep1 ==
  /\ pc = "split_train"
  /\ train' = time_before(dataset, datetime(2012, 9, 1), TRUE)
  /\ pc' = "split_test"
  /\ UNCHANGED <<max_horizon_value, ws_compute_targets, computeVars, dataset, test, trainVars,
                 scoreVars, evalVars, remote_run>>

SplitTrainCell ==
  /\ pc = "split_train"
  /\ train' = time_before(dataset, datetime(2012, 8, 31), TRUE)
  /\ pc' = "split_test"
  /\ UNCHANGED <<max_horizon_value, ws_compute_targets, computeVars, dataset, test, trainVars,
                 scoreVars, evalVars, remote_run>>

SplitTestCell ==
  /\ pc = "split_test"
  /\ test' = time_after(dataset, datetime(2012, 9, 1), TRUE)
  /\ pc' = "max_horizon"
  /\ UNCHANGED <<max_horizon_value, ws_compute_targets, computeVars, dataset, train, trainVars,
                 scoreVars, evalVars, remote_run>>

\* max_horizon = 14
MaxHorizonCell ==
  /\ pc = "max_horizon"
  /\ max_horizon_value' = max_horizon
  /\ pc' = "config"
  /\ UNCHANGED <<ws_compute_targets, computeVars, dataVars, trainVars, scoreVars,
                 evalVars, remote_run>>

(***************************************************************************)
(* Train cells.                                                            *)
(***************************************************************************)
\* the mutant of time_series_settings that also drops the label column
time_series_settings_drop_label ==
  [time_column_name  |-> time_column_name,
   max_horizon       |-> max_horizon_value,
   country_or_region |-> "US",
   target_lags       |-> "auto",
   drop_column_names |-> {"casual", "registered", target_column_name}]

time_series_settings ==
  [time_column_name  |-> time_column_name,
   max_horizon       |-> max_horizon_value,
   country_or_region |-> "US",
   target_lags       |-> "auto",
   drop_column_names |-> {"casual", "registered"}]

\* f(a=1, **kwargs): the keyword arguments a call receives
WithKwargs(named, kwargs) ==
  [k \in DOMAIN named \cup DOMAIN kwargs |->
     IF k \in DOMAIN kwargs THEN kwargs[k] ELSE named[k]]

\* AutoMLConfig(...): the configuration object keeps its keyword arguments
AutoMLConfig(training_data, target, kwargs) ==
  WithKwargs([task                      |-> "forecasting",
              primary_metric            |-> "normalized_root_mean_squared_error",
              blacklist_models          |-> {"ExtremeRandomTrees"},
              training_data             |-> training_data,
              label_column_name         |-> target_column_name,
              compute_target            |-> target,
              enable_early_stopping     |-> TRUE,
              n_cross_validations       |-> 3,
              max_concurrent_iterations |-> 4,
              max_cores_per_iteration   |-> -1],
             kwargs)

\* the mutant of ConfigCell that trains on a compute target of its own
ConfigCellOtherCompute ==
  /\ pc = "config"
  /\ automl_config' = AutoMLConfig(train, ExistingTarget("gpu-cluster", "AmlCompute"),
                                   time_series_settings)
  /\ pc' = "submit"
  /\ UNCHANGED <<max_horizon_value, ws_compute_targets, computeVars, dataVars, train_job, best_run,
                 get_output_calls, fitted_model, engineered_feature_names, featurization_summary,
                 scoreVars, evalVars, remote_run>>

ConfigCell ==
  /\ pc = "config"
  /\ automl_config' = AutoMLConfig(train, compute_target, time_series_settings)
  /\ pc' = "submit"
  /\ UNCHANGED <<max_horizon_value, ws_compute_targets, computeVars, dataVars, train_job, best_run,
                 get_output_calls, fitted_model, engineered_feature_names, featurization_summary,
                 scoreVars, evalVars, remote_run>>

\* remote_run = experiment.submit(automl_config): the job starts on the platform
SubmitCell ==
  /\ pc = "submit"
  /\ train_job' = [status |-> "Running", config |-> automl_config]
  /\ remote_run' = "train_run"
  /\ pc' = "wait_train"
  /\ UNCHANGED <<max_horizon_value, ws_compute_targets, computeVars, dataVars, automl_config, best_run,
                 get_output_calls, fitted_model, engineered_feature_names, featurization_summary,
                 scoreVars, evalVars>>

\* the platform ends the training job
TrainJobEnds ==
  /\ train_job.status = "Running"
  /\ \E s \in TerminalStatuses : train_job' = [train_job EXCEPT !.status = s]
  /\ UNCHANGED <<max_horizon_value, pc, ws_compute_targets, computeVars, dataVars, automl_config,
                 best_run, get_output_calls, fitted_model, engineered_feature_names,
                 featurization_summary, scoreVars, evalVars, remote_run>>

\* the status of the scoring run: the run of run_rolling_forecast ends when
\* its jobs have ended
ScoreStatus ==
  IF \E k \in DOMAIN score_jobs : score_jobs[k].status = "Failed" THEN "Failed"
  ELSE IF \A k \in DOMAIN score_jobs : score_jobs[k].status = "Completed"
         THEN "Completed"
  ELSE "Running"

\* the status of the run behind a run handle
RunStatus(handle) ==
  CASE handle = "train_run" -> train_job.status
    [] handle = "score_run" -> ScoreStatus
    [] OTHER -> "NotSubmitted"

\* the mutant of WaitReturns that does not block
WaitReturnsAtOnce(handle) == TRUE

\* run.wait_for_completion() returns when the run has ended
WaitReturns(handle) == RunStatus(handle) \in TerminalStatuses

WaitTrainCell ==
  /\ pc = "wait_train"
  /\ WaitReturns(remote_run)
  /\ pc' = "get_output"
  /\ UNCHANGED <<max_horizon_value, ws_compute_targets, computeVars, dataVars, trainVars, scoreVars,
                 evalVars, remote_run>>

BestRunOf(handle) == [kind |-> "best_run", run |-> handle]
FittedModelOf(handle) == [kind |-> "fitted_model", run |-> handle]

\* what get_output does on a run of that status: a failed run has no model,
\* a running one may or may not have a finished iteration
GetOutputOutcomes(status) ==
  CASE status = "Completed" -> {"returned"}
    [] status = "Failed" -> {"raised"}
    [] OTHER -> {"returned", "raised"}

\* best_run, fitted_model = remote_run.get_output()
GetOutputCell ==
  /\ pc = "get_output"
  /\ get_output_calls' = Append(get_output_calls,
                                [run |-> remote_run, status |-> RunStatus(remote_run)])
  /\ \E outcome \in GetOutputOutcomes(RunStatus(remote_run)) :
       IF outcome = "returned"
         THEN /\ best_run' = BestRunOf(remote_run)
              /\ fitted_model' = FittedModelOf(remote_run)
              /\ pc' = "feature_names"
         ELSE /\ UNCHANGED <<best_run, fitted_model>>
              /\ pc' = "aborted:get_output"
  /\ UNCHANGED <<max_horizon_value, ws_compute_targets, computeVars, dataVars, automl_config, train_job,
                 engineered_feature_names, featurization_summary,
                 scoreVars, evalVars, remote_run>>

(***************************************************************************)
(* Featurization cells.                                                    *)
(***************************************************************************)
\* fitted_model.named_steps['timeseriestransformer'].get_engineered_feature_names()
FeatureNamesCell ==
  /\ pc = "feature_names"
  /\ engineered_feature_names' =
       [kind |-> "engineered_feature_names", run |-> fitted_model.run]
  /\ pc' = "featurization_summary"
  /\ UNCHANGED <<max_horizon_value, ws_compute_targets, computeVars, dataVars, automl_config, train_job,
                 best_run, fitted_model, featurization_summary, get_output_calls,
                 scoreVars, evalVars, remote_run>>

\* featurization_summary = ....get_featurization_summary()
FeaturizationSummaryCell ==
  /\ pc = "featurization_summary"
  /\ featurization_summary' =
       [kind |-> "featurization_summary", run |-> fitted_model.run]
  /\ pc' = "rolling_forecast"
  /\ UNCHANGED <<max_horizon_value, ws_compute_targets, computeVars, dataVars, automl_config, train_job,
                 best_run, fitted_model, engineered_feature_names, get_output_calls,
                 scoreVars, evalVars, remote_run>>

(***************************************************************************)
(* Rolling forecast on the test set.                                       *)
(***************************************************************************)
Min(a, b) == IF a <= b THEN a ELSE b

\* the number of windows of h periods that n periods make
NumWindows(n, h) == (n + h - 1) \div h

\* the forecast of one window: every row of the window with its prediction and
\* its place in the window, the horizon-origin index
ScoreWindow(rows, bias) ==
  [j \in 1..Len(rows) |->
     WithKwargs(rows[j], [predicted      |-> rows[j][target_column_name] + bias,
                          horizon_origin |-> j])]

\* run_rolling_forecast: one remote scoring job for each window of horizon
\* periods of the time-ordered test set
run_rolling_forecast(experiment, target, train_run, test_dataset, horizon, target_column, time_column) ==
  [k \in 1..NumWindows(Len(test_dataset), horizon) |->
     [status         |-> "Running",
      experiment     |-> experiment,
      compute_target |-> target,
      train_run      |-> train_run,
      first          |-> (k - 1) * horizon + 1,
      last           |-> Min(k * horizon, Len(test_dataset)),
      output         |-> <<>>]]

\* the mutant of ForecastHorizonArg that passes a longer horizon
ForecastHorizonArgLonger == max_horizon_value + 1

\* the mutant of ForecastHorizonArg that passes half the horizon
ForecastHorizonArgHalf == max_horizon_value \div 2

\* the horizon argument of the call of run_rolling_forecast
ForecastHorizonArg == max_horizon_value

\* the mutant of RollingForecastCell that binds the scoring run to no variable
RollingForecastCellNoRebind ==
  /\ pc = "rolling_forecast"
  /\ score_args' = [experiment        |-> "test_experiment",
                    compute_target    |-> compute_target,
                    train_run         |-> best_run,
                    test_dataset      |-> test,
                    max_horizon       |-> ForecastHorizonArg,
                    target_column_name |-> target_column_name,
                    time_column_name  |-> time_column_name]
  /\ score_jobs' = run_rolling_forecast("test_experiment", compute_target, best_run,
                                        test, ForecastHorizonArg,
                                        target_column_name, time_column_name)
  /\ remote_run' = remote_run
  /\ pc' = "wait_score"
  /\ UNCHANGED <<max_horizon_value, ws_compute_targets, computeVars, dataVars, trainVars, df_all,
                 downloaded_from, evalVars>>

\* remote_run = run_rolling_forecast(test_experiment, compute_target, best_run,
\*                                   test, max_horizon, ...)
RollingForecastCell ==
  /\ pc = "rolling_forecast"
  /\ score_args' = [experiment        |-> "test_experiment",
                    compute_target    |-> compute_target,
                    train_run         |-> best_run,
                    test_dataset      |-> test,
                    max_horizon       |-> ForecastHorizonArg,
                    target_column_name |-> target_column_name,
                    time_column_name  |-> time_column_name]
  /\ score_jobs' = run_rolling_forecast("test_experiment", compute_target, best_run,
                                        test, ForecastHorizonArg,
                                        target_column_name, time_column_name)
  /\ remote_run' = "score_run"
  /\ pc' = "wait_score"
  /\ UNCHANGED <<max_horizon_value, ws_compute_targets, computeVars, dataVars, trainVars, df_all,
                 downloaded_from, evalVars>>

\* how a scoring job may end
ScoreOutcomes ==
  {[ok |-> TRUE, bias |-> b] : b \in BiasSample} \cup {[ok |-> FALSE, bias |-> 0]}

\* the platform ends one scoring job: it has scored its window, or it failed
ScoreJobEnds ==
  /\ \E k \in DOMAIN score_jobs :
       /\ score_jobs[k].status = "Running"
       /\ \E outcome \in ScoreOutcomes :
            LET job == score_jobs[k]
                window == SubSeq(score_args.test_dataset, job.first, job.last)
            IN  score_jobs' =
                  [score_jobs EXCEPT ![k] =
                     IF outcome.ok
                       THEN [job EXCEPT !.status = "Completed",
                                        !.output = ScoreWindow(window, outcome.bias)]
                       ELSE [job EXCEPT !.status = "Failed"]]
  /\ UNCHANGED <<max_horizon_value, pc, ws_compute_targets, computeVars, dataVars, trainVars, score_args,
                 df_all, downloaded_from, evalVars, remote_run>>

\* remote_run.wait_for_completion(show_output=False)
WaitScoreCell ==
  /\ pc = "wait_score"
  /\ WaitReturns(remote_run)
  /\ pc' = "download"
  /\ UNCHANGED <<max_horizon_value, ws_compute_targets, computeVars, dataVars, trainVars, scoreVars,
                 evalVars, remote_run>>

RECURSIVE Concat(_)
\* pd.concat: the rows of the frames of a list, in order
Concat(frames) ==
  IF frames = <<>> THEN <<>> ELSE Head(frames) \o Concat(Tail(frames))

\* whether the run has the artifact outputs/predictions.csv
HasPredictions(handle) == handle = "score_run" /\ ScoreStatus = "Completed"

\* outputs/predictions.csv of the scoring run: the forecasts of all windows
PredictionsOf(handle) ==
  IF HasPredictions(handle)
    THEN Concat([k \in DOMAIN score_jobs |-> score_jobs[k].output])
    ELSE <<>>

\* remote_run.download_file('outputs/predictions.csv', ...); df_all = pd.read_csv(...)
DownloadCell ==
  /\ pc = "download"
  /\ downloaded_from' = remote_run
  /\ IF HasPredictions(remote_run)
       THEN /\ df_all' = PredictionsOf(remote_run)
            /\ pc' = "scores"
       ELSE /\ df_all' = df_all
            /\ pc' = "aborted:download"
  /\ UNCHANGED <<max_horizon_value, ws_compute_targets, computeVars, dataVars, trainVars, score_jobs,
                 score_args, evalVars, remote_run>>

(***************************************************************************)
(* Metrics.  A real number is kept exactly: a fraction num/den, or the     *)
(* square root of one.                                                     *)
(***************************************************************************)
Abs(x) == IF x < 0 THEN -x ELSE x

Fraction(n, d) == [num |-> n, den |-> d]

\* whether two fractions are the same number
SameNumber(a, b) == a.num * b.den = b.num * a.den

RECURSIVE SumInts(_)
SumInts(xs) == IF xs = <<>> THEN 0 ELSE Head(xs) + SumInts(Tail(xs))

RECURSIVE SumFractions(_)
SumFractions(qs) ==
  IF qs = <<>> THEN Fraction(0, 1)
  ELSE LET rest == SumFractions(Tail(qs))
       IN  Fraction(Head(qs).num * rest.den + rest.num * Head(qs).den,
                    Head(qs).den * rest.den)

\* df[name]: one column of a data frame
Column(df, name) == [i \in 1..Len(df) |-> df[i][name]]

\* sklearn.metrics.mean_absolute_error
mean_absolute_error(y_true, y_pred) ==
  Fraction(SumInts([i \in 1..Len(y_true) |-> Abs(y_true[i] - y_pred[i])]), Len(y_true))

\* sklearn.metrics.mean_squared_error
mean_squared_error(y_true, y_pred) ==
  Fraction(SumInts([i \in 1..Len(y_true) |-> (y_true[i] - y_pred[i]) * (y_true[i] - y_pred[i])]),
           Len(y_true))

\* np.sqrt
np_sqrt(q) == [sqrt_of |-> q]

\* metrics_helper.APE: the absolute percentage error of each prediction
APE(actual, pred) ==
  [i \in 1..Len(actual) |-> Fraction(100 * Abs(actual[i] - pred[i]), Abs(actual[i]))]

\* metrics_helper.MAPE: the mean of the absolute percentage errors
MAPE(actual, pred) ==
  LET total == SumFractions(APE(actual, pred))
  IN  Fraction(total.num, total.den * Len(actual))

\* metrics.compute_metrics_regression(y_pred, y_test, ...)
compute_metrics_regression(y_pred, y_test) ==
  [mean_absolute_error     |-> mean_absolute_error(y_test, y_pred),
   root_mean_squared_error |-> np_sqrt(mean_squared_error(y_test, y_pred))]

ScoresCell ==
  /\ pc = "scores"
  /\ scores' = compute_metrics_regression(Column(df_all, "predicted"),
                                          Column(df_all, target_column_name))
  /\ pc' = "metrics_by_horizon"
  /\ UNCHANGED <<max_horizon_value, ws_compute_targets, computeVars, dataVars, trainVars, scoreVars,
                 horizon_metrics, APEs, remote_run>>

\* df.groupby(name): the rows of each value of the column, in their order
GroupBy(df, name) ==
  [key \in {df[i][name] : i \in 1..Len(df)} |->
     SelectSeq(df, LAMBDA r : r[name] = key)]

\* the mutant of HorizonMetrics that passes the predictions as the actuals
HorizonMetricsSwapped(df) ==
  [MAPE |-> MAPE(Column(df, "predicted"), Column(df, target_column_name)),
   RMSE |-> np_sqrt(mean_squared_error(Column(df, target_column_name),
                                       Column(df, "predicted"))),
   MAE  |-> mean_absolute_error(Column(df, target_column_name), Column(df, "predicted"))]

\* the lambda of the groupby cell: the metrics of one group
HorizonMetrics(df) ==
  [MAPE |-> MAPE(Column(df, target_column_name), Column(df, "predicted")),
   RMSE |-> np_sqrt(mean_squared_error(Column(df, target_column_name),
                                       Column(df, "predicted"))),
   MAE  |-> mean_absolute_error(Column(df, target_column_name), Column(df, "predicted"))]

\* df_all.groupby('horizon_origin').apply(lambda df: ...)
MetricsByHorizonCell ==
  /\ pc = "metrics_by_horizon"
  /\ horizon_metrics' =
       LET groups == GroupBy(df_all, "horizon_origin")
       IN  [h \in DOMAIN groups |-> HorizonMetrics(groups[h])]
  /\ pc' = "ape_by_horizon"
  /\ UNCHANGED <<max_horizon_value, ws_compute_targets, computeVars, dataVars, trainVars, scoreVars,
                 scores, APEs, remote_run>>

\* the mutant of HorizonRange that stops one horizon short
HorizonRangeShort == 1..(max_horizon_value - 1)

\* range(1, max_horizon + 1)
HorizonRange == 1..max_horizon_value

\* df_all_APE = df_all.assign(APE=...); APEs = [df_all_APE[mask of h].APE ...]
\* Each selected value is kept with the index label of its row.
ApeByHorizonCell ==
  /\ pc = "ape_by_horizon"
  /\ LET ape == APE(Column(df_all, target_column_name), Column(df_all, "predicted"))
         df_all_APE == [i \in 1..Len(df_all) |->
                          WithKwargs(df_all[i], [index |-> i - 1, APE |-> ape[i]])]
     IN  APEs' = [h \in HorizonRange |->
                    LET picked == SelectSeq(df_all_APE,
                                            LAMBDA r : r["horizon_origin"] = h)
                    IN  [j \in 1..Len(picked) |->
                           [index |-> picked[j].index, APE |-> picked[j].APE]]]
  /\ pc' = "done"
  /\ UNCHANGED <<max_horizon_value, ws_compute_targets, computeVars, dataVars, trainVars, scoreVars,
                 scores, horizon_metrics, remote_run>>

(***************************************************************************)
(* The notebook from its first cell: Spec.                                 *)
(***************************************************************************)
Init ==
  /\ pc = "compute"
  /\ ws_compute_targets \in
       {[n \in DOMAIN f |-> ExistingTarget(n, f[n])] : f \in WorkspaceTargets}
  /\ cts = <<>>
  /\ found = FALSE
  /\ compute_target = UnboundTarget
  /\ createCalls = 0
  /\ clusterWaits = <<>>
  /\ dataset \in Datasets
  /\ train = <<>>
  /\ test = <<>>
  /\ max_horizon_value = 0
  /\ automl_config = NoConfig
  /\ train_job = [status |-> "NotSubmitted", config |-> NoConfig]
  /\ score_jobs = <<>>
  /\ score_args = NoArgs
  /\ remote_run = "none"
  /\ get_output_calls = <<>>
  /\ best_run = Unbound
  /\ fitted_model = Unbound
  /\ engineered_feature_names = Unbound
  /\ featurization_summary = Unbound
  /\ df_all = <<>>
  /\ downloaded_from = "none"
  /\ scores = <<>>
  /\ horizon_metrics = <<>>
  /\ APEs = <<>>

Next ==
  \/ ComputeCell
  \/ SplitTrainCell
  \/ SplitTestCell
  \/ MaxHorizonCell
  \/ ConfigCell
  \/ SubmitCell
  \/ TrainJobEnds
  \/ WaitTrainCell
  \/ GetOutputCell
  \/ FeatureNamesCell
  \/ FeaturizationSummaryCell
  \/ RollingForecastCell
  \/ ScoreJobEnds
  \/ WaitScoreCell
  \/ DownloadCell
  \/ ScoresCell
  \/ MetricsByHorizonCell
  \/ ApeByHorizonCell

Spec == Init /\ [][Next]_vars

(***************************************************************************)
(* The evaluation of a model on a long test set: SpecEval starts at the    *)
(* rolling forecast cell, the cells before it having run.                  *)
(***************************************************************************)
\* the target values of the test set repeat one of these cycles
CntCycles == {<<1>>, <<1, 2>>, <<2, 1, 4>>}

\* n daily rows from 2012-09-01 on
DailyRows(n, cycle) ==
  [i \in 1..n |-> [date |-> datetime(2012, 9, 1) + (i - 1) * TicksPerDay,
                   cnt  |-> cycle[((i - 1) % Len(cycle)) + 1]]]

InitEval ==
  /\ pc = "rolling_forecast"
  /\ ws_compute_targets =
       [n \in {amlcompute_cluster_name} |-> ExistingTarget(n, "AmlCompute")]
  /\ cts = ws_compute_targets
  /\ found = TRUE
  /\ compute_target = cts[amlcompute_cluster_name]
  /\ createCalls = 0
  /\ clusterWaits = <<compute_target>>
  /\ \E n \in 0..MaxTestRows : \E cycle \in CntCycles : dataset = DailyRows(n, cycle)
  /\ train = time_before(dataset, datetime(2012, 8, 31), TRUE)
  /\ test = time_after(dataset, datetime(2012, 9, 1), TRUE)
  /\ max_horizon_value = max_horizon
  /\ automl_config = AutoMLConfig(train, compute_target, time_series_settings)
  /\ train_job = [status |-> "Completed", config |-> automl_config]
  /\ score_jobs = <<>>
  /\ score_args = NoArgs
  /\ remote_run = "train_run"
  /\ get_output_calls = <<[run |-> "train_run", status |-> "Completed"]>>
  /\ best_run = BestRunOf("train_run")
  /\ fitted_model = FittedModelOf("train_run")
  /\ engineered_feature_names = [kind |-> "engineered_feature_names", run |-> "train_run"]
  /\ featurization_summary = [kind |-> "featurization_summary", run |-> "train_run"]
  /\ df_all = <<>>
  /\ downloaded_from = "none"
  /\ scores = <<>>
  /\ horizon_metrics = <<>>
  /\ APEs = <<>>

NextEval ==
  \/ RollingForecastCell
  \/ ScoreJobEnds
  \/ WaitScoreCell
  \/ DownloadCell
  \/ ScoresCell
  \/ MetricsByHorizonCell
  \/ ApeByHorizonCell

SpecEval == InitEval /\ [][NextEval]_vars

(***************************************************************************)
(* Document order of the code cells.                                       *)
(***************************************************************************)
Cells == <<"compute", "split_train", "split_test", "max_horizon", "config", "submit",
           "wait_train", "get_output", "feature_names", "featurization_summary",
           "rolling_forecast", "wait_score", "download", "scores",
           "metrics_by_horizon", "ape_by_horizon", "done">>

\* the cell the notebook is at: the next one to run, or the one that raised
CurrentCell ==
  CASE pc = "aborted:compute" -> "compute"
    [] pc = "aborted:get_output" -> "get_output"
    [] pc = "aborted:download" -> "download"
    [] OTHER -> pc

CellIndex(cell) == CHOOSE i \in DOMAIN Cells : Cells[i] = cell

\* the cell has run to its end
Finished(cell) == CellIndex(CurrentCell) > CellIndex(cell)

(***************************************************************************)
(* Claims.                                                                 *)
(***************************************************************************)
\* whether the workspace held an AmlCompute target of the cluster's name when
\* the Compute cell read ws.compute_targets
HeldAmlCompute ==
  /\ amlcompute_cluster_name \in DOMAIN cts
  /\ cts[amlcompute_cluster_name].type = "AmlCompute"

\* C1: once the Compute cell has started, if the workspace held an AmlCompute
\* target named 'cpu-cluster-bike' then ComputeTarget.create was not called and
\* compute_target is that existing target; create was called (once) only when
\* the workspace held no such target.
C1_FindOrCreate ==
  pc # "compute" =>
    /\ HeldAmlCompute =>
         /\ createCalls = 0
         /\ compute_target = cts[amlcompute_cluster_name]
         /\ compute_target.origin = "existing"
    /\ createCalls > 0 => (~HeldAmlCompute /\ createCalls = 1)

\* C1 witness: the cell has run with the cluster already in the workspace
C1_Witness ==
  /\ pc = "split_train"
  /\ HeldAmlCompute
  /\ createCalls = 0
  /\ compute_target = cts[amlcompute_cluster_name]

\* C2: after the split cells, train holds exactly the rows before 2012-09-01
\* and test exactly the rows on or after 2012-09-01, so that every row of the
\* dataset is in one of the two.
C2_SplitAtSep1 ==
  Finished("split_test") =>
    /\ train = SelectSeq(dataset, LAMBDA r : r.date < datetime(2012, 9, 1))
    /\ test = SelectSeq(dataset, LAMBDA r : r.date >= datetime(2012, 9, 1))
    /\ Len(train) + Len(test) = Len(dataset)

\* C3: get_output is called only on the training run and only when the wait
\* on it has returned, never while the job is running; the feature names, the
\* featurization summary and the rolling forecast use what it returned.
C3_ExtractAfterWait ==
  /\ \A i \in DOMAIN get_output_calls :
       /\ get_output_calls[i].run = "train_run"
       /\ get_output_calls[i].status \in TerminalStatuses
  /\ get_output_calls # <<>> => CellIndex(CurrentCell) >= CellIndex("get_output")
  /\ Finished("get_output") =>
       /\ train_job.status = "Completed"
       /\ best_run = BestRunOf("train_run")
       /\ fitted_model = FittedModelOf("train_run")
  /\ Finished("feature_names") => engineered_feature_names.run = fitted_model.run
  /\ Finished("featurization_summary") => featurization_summary.run = fitted_model.run
  /\ Finished("rolling_forecast") =>
       /\ score_args.train_run = best_run
       /\ \A k \in DOMAIN score_jobs : score_jobs[k].train_run = best_run

\* C3 witness: the whole notebook has run on a completed training job
C3_Witness ==
  /\ pc = "done"
  /\ get_output_calls = <<[run |-> "train_run", status |-> "Completed"]>>
  /\ score_args.train_run = BestRunOf("train_run")

\* C4: download_file is called on the scoring run of run_rolling_forecast, not
\* on the training run, and only when the wait on the scoring run has returned;
\* the metric and plot cells run after the download, on the downloaded table.
C4_DownloadFromScoringRun ==
  /\ downloaded_from # "none" =>
       /\ downloaded_from = "score_run"
       /\ RunStatus("score_run") \in TerminalStatuses
       /\ CellIndex(CurrentCell) >= CellIndex("download")
  /\ Finished("download") =>
       /\ downloaded_from = "score_run"
       /\ df_all = PredictionsOf("score_run")
  /\ CellIndex(CurrentCell) <= CellIndex("download") =>
       /\ scores = <<>>
       /\ horizon_metrics = <<>>
       /\ APEs = <<>>

\* C4 witness: the metrics were computed on downloaded predictions
C4_Witness ==
  /\ pc = "done"
  /\ downloaded_from = "score_run"
  /\ remote_run = "score_run"
  /\ Len(df_all) > 0

\* C5: the rolling forecast submits one scoring job for each window of the
\* test set: the windows follow one another from the first row, each holds
\* max_horizon periods (the last one what is left), every row of the test set
\* is in the window of exactly one job, and a job that has ended well has
\* scored exactly the rows of its window.
C5_OneJobPerWindow ==
  Finished("rolling_forecast") =>
    /\ \A i \in 1..Len(test) :
         Cardinality({k \in DOMAIN score_jobs :
                        score_jobs[k].first <= i /\ i <= score_jobs[k].last}) = 1
    /\ \A k \in DOMAIN score_jobs :
         LET size == score_jobs[k].last - score_jobs[k].first + 1
         IN  /\ 1 <= size /\ size <= max_horizon
             /\ k < Len(score_jobs) => size = max_horizon
             /\ score_jobs[k].first = IF k = 1 THEN 1 ELSE score_jobs[k - 1].last + 1
             /\ score_jobs[k].last <= Len(test)
             /\ score_jobs[k].status = "Completed" =>
                  /\ Len(score_jobs[k].output) = size
                  /\ \A j \in 1..size :
                       score_jobs[k].output[j].date =
                         test[score_jobs[k].first + j - 1].date

\* C5 witness: a test set of three windows, all scored
C5_Witness ==
  /\ Finished("wait_score")
  /\ Len(score_jobs) = 3
  /\ Len(test) > 2 * max_horizon
  /\ \A k \in DOMAIN score_jobs : score_jobs[k].status = "Completed"

\* C6: the scoring jobs run on the compute target that was passed to
\* AutoMLConfig, and from the end of the Compute cell on no step rebinds
\* compute_target.
C6_SameCompute ==
  /\ [](Finished("rolling_forecast") =>
          /\ score_args.compute_target = automl_config.compute_target
          /\ score_args.compute_target = train_job.config.compute_target
          /\ score_args.compute_target = compute_target
          /\ \A k \in DOMAIN score_jobs :
               score_jobs[k].compute_target = train_job.config.compute_target)
  /\ [][Finished("compute") => compute_target' = compute_target]_vars

\* C6 witness: the scoring jobs were submitted to the training compute
C6_Witness ==
  /\ Finished("rolling_forecast")
  /\ score_jobs # <<>>
  /\ score_jobs[1].compute_target = train_job.config.compute_target
  /\ train_job.config.compute_target.name = amlcompute_cluster_name

\* the rows of the predictions table of one horizon-origin index
RowsOfHorizon(h) == {i \in 1..Len(df_all) : df_all[i].horizon_origin = h}

RECURSIVE SumOver(_, _)
\* the sum of f[i] over the indices i of a finite set
SumOver(S, f) ==
  IF S = {} THEN 0
  ELSE LET i == CHOOSE x \in S : TRUE IN f[i] + SumOver(S \ {i}, f)

RECURSIVE ProductOver(_, _)
ProductOver(S, f) ==
  IF S = {} THEN 1
  ELSE LET i == CHOOSE x \in S : TRUE IN f[i] * ProductOver(S \ {i}, f)

\* C7: the table of the groupby cell has one line for each horizon_origin of
\* the predictions; over the rows of that horizon_origin, MAE is the mean of
\* |actual - predicted|, RMSE the square root of the mean of
\* (actual - predicted)^2 and MAPE the mean of 100 * |actual - predicted| /
\* |actual|; the groups hold every prediction row once.
C7_MetricsByHorizon ==
  Finished("metrics_by_horizon") =>
    LET actual == [i \in 1..Len(df_all) |-> df_all[i].cnt]
        err == [i \in 1..Len(df_all) |-> Abs(df_all[i].cnt - df_all[i].predicted)]
        sq == [i \in 1..Len(df_all) |-> err[i] * err[i]]
        groups == GroupBy(df_all, "horizon_origin")
    IN  /\ DOMAIN horizon_metrics = {df_all[i].horizon_origin : i \in 1..Len(df_all)}
        /\ \A h \in DOMAIN horizon_metrics :
             LET S == RowsOfHorizon(h)
                 n == Cardinality(S)
                 all == ProductOver(S, actual)
                 pct == [i \in 1..Len(df_all) |-> 100 * err[i] * (all \div actual[i])]
             IN  /\ SameNumber(horizon_metrics[h].MAE, Fraction(SumOver(S, err), n))
                 /\ DOMAIN horizon_metrics[h].RMSE = {"sqrt_of"}
                 /\ SameNumber(horizon_metrics[h].RMSE.sqrt_of, Fraction(SumOver(S, sq), n))
                 /\ SameNumber(horizon_metrics[h].MAPE, Fraction(SumOver(S, pct), all * n))
                 /\ horizon_metrics[h].MAE.den > 0
                 /\ horizon_metrics[h].MAPE.den > 0
        /\ DOMAIN groups = DOMAIN horizon_metrics
        /\ \A h \in DOMAIN groups :
             /\ Len(groups[h]) = Cardinality(RowsOfHorizon(h))
             /\ \A j \in 1..Len(groups[h]) : groups[h][j].horizon_origin = h
        /\ SumOver(DOMAIN groups, [h \in DOMAIN groups |-> Len(groups[h])]) = Len(df_all)

\* C7 witness: a group of three predictions with errors
C7_Witness ==
  /\ Finished("metrics_by_horizon")
  /\ \E h \in DOMAIN horizon_metrics :
       /\ Cardinality(RowsOfHorizon(h)) = 3
       /\ horizon_metrics[h].MAE.num > 0
       /\ \E i, j \in RowsOfHorizon(h) : df_all[i].cnt # df_all[j].cnt

\* C8: the configuration of the submitted training job drops exactly the
\* columns 'casual' and 'registered', and neither its label column, 'cnt', nor
\* its time column, 'date', is dropped.
C8_DroppedColumns ==
  Finished("submit") =>
    LET config == train_job.config
    IN  /\ config.drop_column_names = {"casual", "registered"}
        /\ config.label_column_name = "cnt"
        /\ config.time_column_name = "date"
        /\ config.label_column_name \notin config.drop_column_names
        /\ config.time_column_name \notin config.drop_column_names

\* C8 witness: the job was submitted with the two columns dropped
C8_Witness ==
  /\ pc = "wait_train"
  /\ train_job.status = "Running"
  /\ train_job.config.drop_column_names = {"casual", "registered"}

\* C9: every row of the downloaded predictions has a horizon_origin in
\* 1..max_horizon, and the groups of the box plot, one for each h in
\* 1..max_horizon, hold every row exactly once.
C9_ApeGroupsCoverRows ==
  Finished("ape_by_horizon") =>
    /\ \A i \in 1..Len(df_all) : df_all[i].horizon_origin \in 1..max_horizon
    /\ DOMAIN APEs = 1..max_horizon
    /\ \A i \in 1..Len(df_all) :
         Cardinality({hj \in UNION {{<<h, j>> : j \in DOMAIN APEs[h]} : h \in DOMAIN APEs} :
                        APEs[hj[1]][hj[2]].index = i - 1}) = 1

\* C9 witness: predictions of more than one window, the last horizon among them
C9_Witness ==
  /\ pc = "done"
  /\ Len(df_all) > max_horizon
  /\ \E i \in 1..Len(df_all) : df_all[i].horizon_origin = max_horizon
  /\ Len(APEs[1]) >= 2

\* C10: when the Compute cell has run to its end, on either branch,
\* compute_target is an AmlCompute target named 'cpu-cluster-bike' and its
\* wait_for_completion was called once, on it; also when the workspace held a
\* target of that name and of another type.
C10_ComputeTargetIsAmlCompute ==
  Finished("compute") =>
    /\ compute_target.name = "cpu-cluster-bike"
    /\ compute_target.type = "AmlCompute"
    /\ clusterWaits = <<compute_target>>

\* C10 witness: the workspace held a target of that name and of another type
C10_Witness ==
  /\ Finished("compute")
  /\ amlcompute_cluster_name \in DOMAIN cts
  /\ cts[amlcompute_cluster_name].type # "AmlCompute"
  /\ clusterWaits = <<compute_target>>

\* C11: after the split cells no row is in both train and test, and every
\* timestamp of train is strictly earlier than every timestamp of test; the
\* training data of the submitted job is train, so it holds no row of the test
\* period.
C11_TrainBeforeTest ==
  /\ Finished("split_test") =>
       /\ \A i \in DOMAIN train : \A j \in DOMAIN test :
            /\ train[i] # test[j]
            /\ train[i].date < test[j].date
       /\ Len(train) + Len(test) <= Len(dataset)
  /\ Finished("submit") =>
       /\ train_job.config.training_data = train
       /\ \A i \in DOMAIN train_job.config.training_data : \A j \in DOMAIN test :
            train_job.config.training_data[i].date < test[j].date

\* C11 witness: a job trained on a dataset with rows on both sides of the split
C11_Witness ==
  /\ Finished("submit")
  /\ train # <<>>
  /\ test # <<>>
  /\ train_job.config.training_data = train

\* C12: the notebook variable max_horizon is assigned by one cell only, to 14,
\* and keeps that value from then on; the configuration of the training job,
\* the call of run_rolling_forecast and the range of the per-horizon APE
\* groups all use it.
C12_OneHorizon ==
  /\ [][max_horizon_value' # max_horizon_value => pc = "max_horizon"]_vars
  /\ [][Finished("max_horizon") => max_horizon_value' = max_horizon_value]_vars
  /\ [](Finished("max_horizon") => max_horizon_value = 14)
  /\ [](Finished("submit") => train_job.config.max_horizon = max_horizon_value)
  /\ [](Finished("rolling_forecast") =>
          /\ score_args.max_horizon = max_horizon_value
          /\ score_args.max_horizon = train_job.config.max_horizon)
  /\ [](Finished("ape_by_horizon") =>
          /\ DOMAIN APEs = 1..max_horizon_value
          /\ DOMAIN APEs = 1..score_args.max_horizon)

\* C12 witness: the notebook has run to its end with the one horizon
C12_Witness ==
  /\ pc = "done"
  /\ train_job.config.max_horizon = 14
  /\ score_args.max_horizon = 14
  /\ DOMAIN APEs = 1..14

====
